---- MODULE Spec2Model ----
(***************************************************************************)
(* Model of the shapefile WebAssembly helper crate                         *)
(*   src/components/geo-loader/core/processors/implementations/shapefile/  *)
(*   wasm/src/{geometry.rs, validation.rs, lib.rs}                         *)
(*                                                                         *)
(* The crate is stateless: every exported function is a pure function of   *)
(* its arguments.  The state machine below is the caller's view of it: in  *)
(* "idle" a function is called with arguments drawn from bounded sets, the *)
(* call runs to completion and leaves its outcome in ret, and Return goes  *)
(* back to "idle".  An outcome is Ok(value), Err(message) (a JsError handed*)
(* back to the caller) or Panic(message) (a Rust panic: the wasm instance  *)
(* traps, nothing is returned).                                            *)
(*                                                                         *)
(* f64 values are modelled by integers (exact for the small magnitudes     *)
(* used here) extended with the two infinities; usize is the 32-bit word   *)
(* of the wasm32 target, kept as two 16-bit limbs <<hi, lo>>.              *)
(***************************************************************************)
EXTENDS Integers, Sequences, FiniteSets, TLC

VARIABLES pc, op, args, ret, overflow_checks

vars == <<pc, op, args, ret, overflow_checks>>

(***************************************************************************)
(* Bounds of the model.                                                    *)
(***************************************************************************)
\* finite coordinate values are 0..MaxVal
MaxVal == 1
\* longest scalar array handed to is_clockwise
MaxScalars == 10
\* longest scalar array handed to calculate_bounds
MaxBoundsLen == 4
\* number of sample rings concatenated into convert_polygon's coordinate array
MaxLibRings == 3
\* longest ring_sizes sequence handed to convert_polygon
MaxRings == 3
\* largest entry of ring_sizes
MaxRingSize == 4
\* shape-type codes 0..MaxShapeCode (and 999) are tried
MaxShapeCode == 33
\* longest scalar array handed to process_geometry
MaxDispatchLen == 6
\* usize samples are 0..MaxSmall and USIZE_MAX-MaxSmall..USIZE_MAX
MaxSmall == 3

(***************************************************************************)
(* Outcomes of a call.                                                     *)
(***************************************************************************)
Ok(v) == [status |-> "Ok", value |-> v]

Err(m) == [status |-> "Err", message |-> m]

Panic(m) == [status |-> "Panic", message |-> m]

(***************************************************************************)
(* f64: integers plus the infinities, which lie beyond every finite value. *)
(***************************************************************************)
INFINITY == 2 ^ 30

NEG_INFINITY == 0 - INFINITY

is_finite(x) == NEG_INFINITY < x /\ x < INFINITY

f64_min(a, b) == IF b < a THEN b ELSE a

f64_max(a, b) == IF b > a THEN b ELSE a

FiniteVals == 0..MaxVal

AllVals == FiniteVals \cup {INFINITY, NEG_INFINITY}

SeqsUpTo(S, n) == UNION {[1..k -> S] : k \in 0..n}

(***************************************************************************)
(* geometry.rs: calculate_bounds                                           *)
(***************************************************************************)
BoundsDefault ==
    [min_x |-> INFINITY, min_y |-> INFINITY,
     max_x |-> NEG_INFINITY, max_y |-> NEG_INFINITY]

\* faulty variant: max_y is fed the x value
BoundsStepXForY(bounds, x, y) ==
    [min_x |-> f64_min(bounds.min_x, x),
     min_y |-> f64_min(bounds.min_y, y),
     max_x |-> f64_max(bounds.max_x, x),
     max_y |-> f64_max(bounds.max_y, x)]

\* the body of the for loop
BoundsStep(bounds, x, y) ==
    [min_x |-> f64_min(bounds.min_x, x),
     min_y |-> f64_min(bounds.min_y, y),
     max_x |-> f64_max(bounds.max_x, x),
     max_y |-> f64_max(bounds.max_y, y)]

RECURSIVE BoundsLoop(_, _, _)
BoundsLoop(coordinates, i, bounds) ==
    IF i > Len(coordinates) THEN bounds
    ELSE BoundsLoop(coordinates, i + 2,
                    BoundsStep(bounds, coordinates[i], coordinates[i + 1]))

calculate_bounds(coordinates) ==
    IF Len(coordinates) % 2 # 0
    THEN Err("Coordinates array must have even length")
    ELSE LET bounds == BoundsLoop(coordinates, 1, BoundsDefault) IN
         IF ~is_finite(bounds.min_x)
         THEN Ok(<<0, 0, 0, 0>>)
         ELSE Ok(<<bounds.min_x, bounds.min_y, bounds.max_x, bounds.max_y>>)

(***************************************************************************)
(* geometry.rs: is_clockwise                                               *)
(***************************************************************************)
\* coordinates.chunks(2).map(|chunk| (chunk[0], chunk[1])), for an even length
PointsOf(coordinates) ==
    [i \in 1..(Len(coordinates) \div 2) |->
        <<coordinates[2 * i - 1], coordinates[2 * i]>>]

\* sum of (x2 - x1) * (y2 + y1) over the edges points[i] -> points[i+1], i = from..last-1
RECURSIVE EdgeSum(_, _, _)
EdgeSum(points, i, last) ==
    IF i >= last THEN 0
    ELSE (points[i + 1][1] - points[i][1]) * (points[i + 1][2] + points[i][2])
         + EdgeSum(points, i + 1, last)

\* faulty variant: the loop stops one edge early
is_clockwise_short_loop(coordinates) ==
    IF Len(coordinates) < 6
    THEN Err("Ring must have at least 3 points")
    ELSE IF Len(coordinates) % 2 # 0
    THEN Panic("index out of bounds: the len is 1 but the index is 1")
    ELSE LET points == PointsOf(coordinates) IN
         Ok(EdgeSum(points, 1, Len(points) - 1) > 0)

\* An odd length of 7 or more leaves a last chunk of one scalar, and chunk[1]
\* panics while the points are collected.
is_clockwise(coordinates) ==
    IF Len(coordinates) < 6
    THEN Err("Ring must have at least 3 points")
    ELSE IF Len(coordinates) % 2 # 0
    THEN Panic("index out of bounds: the len is 1 but the index is 1")
    ELSE LET points == PointsOf(coordinates) IN
         Ok(EdgeSum(points, 1, Len(points)) > 0)

(***************************************************************************)
(* geometry.rs: convert_point, convert_multi_point, convert_polyline       *)
(* A geometry value is tagged with the geo_types type that is serialised.  *)
(***************************************************************************)
convert_point(x, y) == Ok([type |-> "Point", coordinates |-> <<x, y>>])

convert_multi_point(coordinates) ==
    IF Len(coordinates) % 2 # 0
    THEN Err("Coordinates array must have even length")
    ELSE Ok([type |-> "MultiPoint", coordinates |-> PointsOf(coordinates)])

convert_polyline(coordinates) ==
    IF Len(coordinates) % 2 # 0
    THEN Err("Coordinates array must have even length")
    ELSE Ok([type |-> "LineString", coordinates |-> PointsOf(coordinates)])

(***************************************************************************)
(* usize is 32 bits wide on wasm32; a value is <<hi, lo>>, two 16-bit      *)
(* limbs.  With overflow checks compiled in (the debug profile) an         *)
(* overflowing +, - or * panics; without them (the release profile) it     *)
(* wraps.  overflow_checks is the profile the crate was built with.        *)
(***************************************************************************)
LIMB == 2 ^ 16

USIZE_MAX == <<LIMB - 1, LIMB - 1>>

usize_gt(a, b) == a[1] > b[1] \/ (a[1] = b[1] /\ a[2] > b[2])

\* a + b: the wrapped 32-bit result and whether the true sum left the word
usize_add(a, b) ==
    LET lo == a[2] + b[2]
        hi == a[1] + b[1] + (lo \div LIMB) IN
    [overflow |-> hi >= LIMB, value |-> <<hi % LIMB, lo % LIMB>>]

\* a - b: the wrapped 32-bit result and whether the true difference is negative
usize_sub(a, b) ==
    LET lo == a[2] - b[2]
        borrow == IF lo < 0 THEN 1 ELSE 0
        hi == a[1] - b[1] - borrow IN
    [overflow |-> hi < 0, value |-> <<(hi + LIMB) % LIMB, (lo + LIMB) % LIMB>>]

\* size * 2: the wrapped 32-bit result and whether the true product left the word
usize_twice(a) == usize_add(a, a)

\* a length or count below 2^31 as a usize
usize_of(n) == <<n \div LIMB, n % LIMB>>

\* a usize that indexes one of the model's arrays (hi = 0) as an integer
usize_int(a) == a[1] * LIMB + a[2]

(***************************************************************************)
(* geometry.rs: convert_polygon                                            *)
(***************************************************************************)
\* geo_types LineString::close, applied by Polygon::new to every ring: a ring
\* whose last point differs from its first gets the first point appended.
CloseRing(ring) ==
    IF ring = <<>> \/ ring[1] = ring[Len(ring)] THEN ring
    ELSE Append(ring, ring[1])

\* Polygon::new(exterior, interiors)
PolygonNew(exterior, interiors) ==
    [exterior |-> CloseRing(exterior),
     interiors |-> [j \in 1..Len(interiors) |-> CloseRing(interiors[j])]]

\* ring.0.iter().flat_map(|c| vec![c.x, c.y])
FlatCoords(ring) ==
    [k \in 1..(2 * Len(ring)) |-> ring[(k + 1) \div 2][IF k % 2 = 1 THEN 1 ELSE 2]]

\* The first loop: slice coordinates[offset .. offset + size * 2] per ring size.
\* ring sizes and offset are usize values, offset 0-based as in the source.
\* size * 2 and offset + size * 2 are computed in usize: they panic when they
\* overflow under overflow checks and wrap otherwise.  The range index then
\* panics when it starts after its end or ends past the array.  Line 133 adds
\* the same size * 2 to offset again, so offset becomes the slice's end.
RECURSIVE SliceRings(_, _, _, _, _)
SliceRings(coordinates, ring_sizes, i, offset, rings) ==
    IF i > Len(ring_sizes) THEN Ok(rings)
    ELSE LET size == ring_sizes[i]
             twice == usize_twice(size)
             end == usize_add(offset, twice.value) IN
         IF twice.overflow /\ overflow_checks
         THEN Panic("attempt to multiply with overflow")
         ELSE IF end.overflow /\ overflow_checks
         THEN Panic("attempt to add with overflow")
         ELSE IF usize_gt(offset, end.value)
         THEN Panic("slice index starts after its end")
         ELSE IF usize_gt(end.value, usize_of(Len(coordinates)))
         THEN Panic("range end index out of range for slice")
         ELSE SliceRings(coordinates, ring_sizes, i + 1, end.value,
                         Append(rings,
                                PointsOf(SubSeq(coordinates, usize_int(offset) + 1,
                                                usize_int(end.value)))))

\* faulty variant: a clockwise ring drops the polygon collected so far
GroupStepDropsCurrent(cw, ring, polygons, current_polygon) ==
    IF cw
    THEN [polygons |-> polygons, current_polygon |-> <<ring>>]
    ELSE [polygons |-> polygons, current_polygon |-> Append(current_polygon, ring)]

\* faulty variant: a counter-clockwise ring with no exterior before it is skipped
GroupStepSkipsOrphan(cw, ring, polygons, current_polygon) ==
    IF cw
    THEN [polygons |->
              IF current_polygon # <<>>
              THEN Append(polygons,
                          PolygonNew(Head(current_polygon), Tail(current_polygon)))
              ELSE polygons,
          current_polygon |-> <<ring>>]
    ELSE [polygons |-> polygons,
          current_polygon |->
              IF current_polygon = <<>> THEN <<>> ELSE Append(current_polygon, ring)]

\* The body of the second loop, given the ring's orientation.
GroupStep(cw, ring, polygons, current_polygon) ==
    IF cw
    THEN [polygons |->
              IF current_polygon # <<>>
              THEN Append(polygons,
                          PolygonNew(Head(current_polygon), Tail(current_polygon)))
              ELSE polygons,
          current_polygon |-> <<ring>>]
    ELSE [polygons |-> polygons,
          current_polygon |-> Append(current_polygon, ring)]

\* The second loop; an is_clockwise error leaves the function through `?`.
RECURSIVE GroupLoop(_, _, _, _)
GroupLoop(rings, i, polygons, current_polygon) ==
    IF i > Len(rings)
    THEN Ok([polygons |-> polygons, current_polygon |-> current_polygon])
    ELSE LET cw == is_clockwise(FlatCoords(rings[i])) IN
         IF cw.status # "Ok" THEN cw
         ELSE LET next == GroupStep(cw.value, rings[i], polygons, current_polygon) IN
              GroupLoop(rings, i + 1, next.polygons, next.current_polygon)

\* faulty variant: one or more polygons are emitted as the first Polygon
EmitGeometryFirstOnly(polygons) ==
    IF Len(polygons) >= 1
    THEN Ok([type |-> "Polygon",
             exterior |-> polygons[1].exterior,
             interiors |-> polygons[1].interiors])
    ELSE Ok([type |-> "MultiPolygon", polygons |-> polygons])

\* if polygons.len() == 1 { polygons[0] } else { MultiPolygon(polygons) }
EmitGeometry(polygons) ==
    IF Len(polygons) = 1
    THEN Ok([type |-> "Polygon",
             exterior |-> polygons[1].exterior,
             interiors |-> polygons[1].interiors])
    ELSE Ok([type |-> "MultiPolygon", polygons |-> polygons])

convert_polygon(coordinates, ring_sizes) ==
    IF Len(coordinates) % 2 # 0
    THEN Err("Coordinates array must have even length")
    ELSE LET sliced == SliceRings(coordinates, ring_sizes, 1, usize_of(0), <<>>) IN
         IF sliced.status # "Ok" THEN sliced
         ELSE LET grouped == GroupLoop(sliced.value, 1, <<>>, <<>>) IN
              IF grouped.status # "Ok" THEN grouped
              ELSE LET g == grouped.value
                       polygons ==
                           IF g.current_polygon # <<>>
                           THEN Append(g.polygons,
                                       PolygonNew(Head(g.current_polygon),
                                                  Tail(g.current_polygon)))
                           ELSE g.polygons IN
                   EmitGeometry(polygons)

(***************************************************************************)
(* validation.rs: validate_shape_type                                      *)
(***************************************************************************)
\* faulty variant: the null shape is classified as geometry-bearing
validate_shape_type_null_true(shape_type) ==
    CASE shape_type = 0 -> Ok(TRUE)
      [] shape_type \in {1, 3, 5, 8, 11, 13, 15, 18, 21, 23, 25, 28, 31} -> Ok(TRUE)
      [] OTHER -> Err(<<"Invalid shape type: ", shape_type>>)

validate_shape_type(shape_type) ==
    CASE shape_type = 0 -> Ok(FALSE)
      [] shape_type = 1 -> Ok(TRUE)
      [] shape_type = 3 -> Ok(TRUE)
      [] shape_type = 5 -> Ok(TRUE)
      [] shape_type = 8 -> Ok(TRUE)
      [] shape_type = 11 -> Ok(TRUE)
      [] shape_type = 13 -> Ok(TRUE)
      [] shape_type = 15 -> Ok(TRUE)
      [] shape_type = 18 -> Ok(TRUE)
      [] shape_type = 21 -> Ok(TRUE)
      [] shape_type = 23 -> Ok(TRUE)
      [] shape_type = 25 -> Ok(TRUE)
      [] shape_type = 28 -> Ok(TRUE)
      [] shape_type = 31 -> Ok(TRUE)
      [] OTHER -> Err(<<"Invalid shape type: ", shape_type>>)

(***************************************************************************)
(* validation.rs: validate_record_buffer_space                             *)
(***************************************************************************)
validate_record_buffer_space(offset, record_size, buffer_length, record_number) ==
    LET sum == usize_add(offset, record_size) IN
    IF sum.overflow /\ overflow_checks
    THEN Panic("attempt to add with overflow")
    ELSE IF usize_gt(sum.value, buffer_length)
    THEN LET have == usize_sub(buffer_length, offset) IN
         IF have.overflow /\ overflow_checks
         THEN Panic("attempt to subtract with overflow")
         ELSE Err([text |-> "truncated record content", record |-> record_number,
                   need |-> record_size, have |-> have.value])
    ELSE Ok(<<>>)

(***************************************************************************)
(* lib.rs: ShapefileProcessor::process_geometry                            *)
(* The outcome is paired with the Geometry Builder conversion that was     *)
(* invoked ("none" when the call failed before any).                       *)
(***************************************************************************)
process_geometry(shape_type, coordinates) ==
    LET valid == validate_shape_type(shape_type) IN
    IF valid.status # "Ok"
    THEN [result |-> valid, invoked |-> "none"]
    ELSE IF ~valid.value
    THEN [result |-> Err("Invalid or null shape type"), invoked |-> "none"]
    ELSE CASE shape_type = 1 ->
                IF Len(coordinates) # 2
                THEN [result |-> Err("Point must have exactly 2 coordinates"),
                      invoked |-> "none"]
                ELSE [result |-> convert_point(coordinates[1], coordinates[2]),
                      invoked |-> "convert_point"]
           [] shape_type = 3 ->
                [result |-> convert_polyline(coordinates),
                 invoked |-> "convert_polyline"]
           [] shape_type = 5 ->
                [result |-> convert_polygon(coordinates, <<usize_of(Len(coordinates) \div 2)>>),
                 invoked |-> "convert_polygon"]
           [] shape_type = 8 ->
                [result |-> convert_multi_point(coordinates),
                 invoked |-> "convert_multi_point"]
           [] OTHER ->
                [result |-> Err("Unsupported shape type"), invoked |-> "none"]

(***************************************************************************)
(* Inputs.                                                                 *)
(***************************************************************************)
\* sample rings, as point sequences: an open triangle in each winding
\* direction, a closed counter-clockwise triangle, and an open triangle whose
\* listed edges sum to +1 while the closed triangle sums to -1
RingLib ==
    { <<<<0, 0>>, <<0, 1>>, <<1, 0>>>>,
      <<<<0, 0>>, <<1, 0>>, <<0, 1>>>>,
      <<<<0, 0>>, <<1, 0>>, <<0, 1>>, <<0, 0>>>>,
      <<<<0, 1>>, <<0, 0>>, <<1, 1>>>> }

RECURSIVE Concat(_)
Concat(ss) == IF ss = <<>> THEN <<>> ELSE Head(ss) \o Concat(Tail(ss))

\* coordinate arrays for convert_polygon: sample rings laid end to end, and
\* odd-length arrays: one stray scalar alone or after one sample ring
PolygonCoords ==
    { Concat([i \in 1..Len(rs) |-> FlatCoords(rs[i])]) : rs \in SeqsUpTo(RingLib, MaxLibRings) }
        \cup { <<0>> } \cup { FlatCoords(r) \o <<0>> : r \in RingLib }

\* ring sizes that can fit the arrays
SmallRingSizes == { usize_of(k) : k \in 0..MaxRingSize }

\* ring sizes near half the word: 2^31 - 1 (size * 2 fits, offset + size * 2 may
\* not), 2^31 (size * 2 wraps to 0) and 2^31 + 3 (size * 2 wraps to 6)
HugeRingSizes == { <<2 ^ 15 - 1, LIMB - 1>>, <<2 ^ 15, 0>>, <<2 ^ 15, 3>> }

\* ring_sizes arguments: sequences of small sizes, and those with one entry
\* replaced by a huge size
RingSizeSeqs ==
    LET small == SeqsUpTo(SmallRingSizes, MaxRings) IN
    small \cup UNION { { [q EXCEPT ![i] = h] : i \in DOMAIN q, h \in HugeRingSizes } :
                         q \in small }

UsizeSamples ==
    { <<0, k>> : k \in 0..MaxSmall }
        \cup { <<USIZE_MAX[1], USIZE_MAX[2] - k>> : k \in 0..MaxSmall }

ShapeCodes == 0..MaxShapeCode \cup {999}

(***************************************************************************)
(* The state machine.                                                      *)
(***************************************************************************)
Init ==
    /\ pc = "idle"
    /\ op = "none"
    /\ args = <<>>
    /\ ret = <<>>
    /\ overflow_checks \in BOOLEAN

Call_calculate_bounds ==
    /\ pc = "idle"
    /\ \E coordinates \in SeqsUpTo(AllVals, MaxBoundsLen) :
         /\ args' = [coordinates |-> coordinates]
         /\ ret' = calculate_bounds(coordinates)
    /\ op' = "calculate_bounds"
    /\ pc' = "returned"
    /\ UNCHANGED overflow_checks

Call_is_clockwise ==
    /\ pc = "idle"
    /\ \E coordinates \in SeqsUpTo(FiniteVals, MaxScalars) :
         /\ args' = [coordinates |-> coordinates]
         /\ ret' = is_clockwise(coordinates)
    /\ op' = "is_clockwise"
    /\ pc' = "returned"
    /\ UNCHANGED overflow_checks

Call_convert_polygon ==
    /\ pc = "idle"
    /\ \E coordinates \in PolygonCoords, ring_sizes \in RingSizeSeqs :
         /\ args' = [coordinates |-> coordinates, ring_sizes |-> ring_sizes]
         /\ ret' = convert_polygon(coordinates, ring_sizes)
    /\ op' = "convert_polygon"
    /\ pc' = "returned"
    /\ UNCHANGED overflow_checks

Call_validate_record_buffer_space ==
    /\ pc = "idle"
    /\ \E offset \in UsizeSamples, record_size \in UsizeSamples,
          buffer_length \in UsizeSamples, record_number \in {1} :
         /\ args' = [offset |-> offset, record_size |-> record_size,
                     buffer_length |-> buffer_length, record_number |-> record_number]
         /\ ret' = validate_record_buffer_space(offset, record_size, buffer_length,
                                                record_number)
    /\ op' = "validate_record_buffer_space"
    /\ pc' = "returned"
    /\ UNCHANGED overflow_checks

Call_validate_shape_type ==
    /\ pc = "idle"
    /\ \E shape_type \in ShapeCodes :
         /\ args' = [shape_type |-> shape_type]
         /\ ret' = validate_shape_type(shape_type)
    /\ op' = "validate_shape_type"
    /\ pc' = "returned"
    /\ UNCHANGED overflow_checks

Call_process_geometry ==
    /\ pc = "idle"
    /\ \E shape_type \in ShapeCodes, coordinates \in SeqsUpTo(FiniteVals, MaxDispatchLen) :
         /\ args' = [shape_type |-> shape_type, coordinates |-> coordinates]
         /\ ret' = process_geometry(shape_type, coordinates)
    /\ op' = "process_geometry"
    /\ pc' = "returned"
    /\ UNCHANGED overflow_checks

\* the caller takes the outcome; nothing is kept between calls
Return ==
    /\ pc = "returned"
    /\ pc' = "idle"
    /\ op' = "none"
    /\ args' = <<>>
    /\ ret' = <<>>
    /\ UNCHANGED overflow_checks

NextBounds == Call_calculate_bounds \/ Return

SpecBounds == Init /\ [][NextBounds]_vars

NextClockwise == Call_is_clockwise \/ Return

SpecClockwise == Init /\ [][NextClockwise]_vars

NextPolygon == Call_convert_polygon \/ Return

SpecPolygon == Init /\ [][NextPolygon]_vars

NextRecord == Call_validate_record_buffer_space \/ Return

SpecRecord == Init /\ [][NextRecord]_vars

NextDispatch == Call_validate_shape_type \/ Call_process_geometry \/ Return

SpecDispatch == Init /\ [][NextDispatch]_vars

Next ==
    \/ Call_calculate_bounds
    \/ Call_is_clockwise
    \/ Call_convert_polygon
    \/ Call_validate_record_buffer_space
    \/ Call_validate_shape_type
    \/ Call_process_geometry
    \/ Return

Spec == Init /\ [][Next]_vars

(***************************************************************************)
(* Properties.                                                             *)
(***************************************************************************)
Returned(name) == pc = "returned" /\ op = name

\* the ring [0,0, 1,0, 0,1, 0,0]
TriangleA == <<0, 0, 1, 0, 0, 1, 0, 0>>

\* its reversal [0,0, 0,1, 1,0, 0,0]
TriangleB == <<0, 0, 0, 1, 1, 0, 0, 0>>

\* the ring [0,0, 0,1, 1,1, 1,0, 0,0]
SquareB == <<0, 0, 0, 1, 1, 1, 1, 0, 0, 0>>

\* x of the i-th complete pair of a scalar array, and its y
PairX(c, i) == c[2 * i - 1]

PairY(c, i) == c[2 * i]

\* the shoelace sum the specification states, over the complete pairs of c:
\* the sum over consecutive vertex pairs of (x2 - x1) * (y2 + y1)
RECURSIVE ShoelaceUpTo(_, _)
ShoelaceUpTo(c, k) ==
    IF k < 2 THEN 0
    ELSE ShoelaceUpTo(c, k - 1)
         + (PairX(c, k) - PairX(c, k - 1)) * (PairY(c, k) + PairY(c, k - 1))

Shoelace(c) == ShoelaceUpTo(c, Len(c) \div 2)

ReverseSeq(s) == [i \in 1..Len(s) |-> s[Len(s) + 1 - i]]

\* the point sequence s started k places later, cyclically
RotateSeq(s, k) == [i \in 1..Len(s) |-> s[((i - 1 + k) % Len(s)) + 1]]

\* ---- C3 ----------------------------------------------------------------
\* C3: is_clockwise returns an error when given fewer than 6 scalars, and
\* otherwise returns true exactly when the sum over consecutive vertex pairs of
\* (x2-x1)*(y2+y1) is strictly positive (false when it is zero or negative);
\* so it returns false on [0,0, 1,0, 0,1, 0,0] and true on
\* [0,0, 0,1, 1,1, 1,0, 0,0].  An array of 7, 9, ... scalars is one of the
\* "otherwise" inputs: its last chunk holds one scalar, chunk[1] is out of
\* bounds and the call panics instead of returning a bool.
C3_SignOfShoelace ==
    Returned("is_clockwise") =>
        /\ IF Len(args.coordinates) < 6
           THEN ret.status = "Err"
           ELSE ret = Ok(Shoelace(args.coordinates) > 0)
        /\ args.coordinates = TriangleA => ret = Ok(FALSE)
        /\ args.coordinates = SquareB => ret = Ok(TRUE)

\* ---- C4 ----------------------------------------------------------------
\* a ring handed to is_clockwise: 3 or more whole points
IsRingCall == Returned("is_clockwise") /\ Len(args.coordinates) >= 6
                 /\ Len(args.coordinates) % 2 = 0

RingPoints == PointsOf(args.coordinates)

ExplicitlyClosed == RingPoints[1] = RingPoints[Len(RingPoints)]

\* the same cycle started at another vertex: for an explicitly closed ring the
\* repeated point is dropped, the rest rotated and the new first point repeated;
\* an implicitly closed ring is rotated as it is
Rotations ==
    IF ExplicitlyClosed
    THEN LET open == SubSeq(RingPoints, 1, Len(RingPoints) - 1) IN
         { Append(RotateSeq(open, k), RotateSeq(open, k)[1]) : k \in 1..(Len(open) - 1) }
    ELSE { RotateSeq(RingPoints, k) : k \in 1..(Len(RingPoints) - 1) }

\* C4 as stated: for every ring of 3 or more points, closed or implicitly
\* closed, reversal negates the result and rotation keeps it.
C4_AsStated ==
    IsRingCall =>
        /\ is_clockwise(FlatCoords(ReverseSeq(RingPoints))) = Ok(~ret.value)
        /\ \A r \in Rotations : is_clockwise(FlatCoords(r)) = ret

\* C4 (amended): for every ring of 3 or more points, closed or implicitly
\* closed, is_clockwise on the reversed ring gives the negation of its result
\* on the ring whenever the sum over the listed consecutive vertex pairs is
\* not zero, and when that sum is zero it is false on both; and for every
\* explicitly closed ring (the last point repeats the first) it gives the
\* same result for the same cycle started at any other vertex.
C4_OrientationSymmetry ==
    IsRingCall =>
        /\ Shoelace(args.coordinates) # 0 =>
               is_clockwise(FlatCoords(ReverseSeq(RingPoints))) = Ok(~ret.value)
        /\ Shoelace(args.coordinates) = 0 =>
               /\ ret = Ok(FALSE)
               /\ is_clockwise(FlatCoords(ReverseSeq(RingPoints))) = Ok(FALSE)
        /\ ExplicitlyClosed =>
               \A r \in Rotations : is_clockwise(FlatCoords(r)) = ret

C4_Witness ==
    /\ IsRingCall
    /\ ExplicitlyClosed
    /\ Len(RingPoints) = 5
    /\ ret = Ok(TRUE)
    /\ is_clockwise(FlatCoords(ReverseSeq(RingPoints))) = Ok(FALSE)
    /\ \E r \in Rotations : r # RingPoints

\* ---- C8 ----------------------------------------------------------------
\* C8: as test_is_clockwise asserts, is_clockwise is true on
\* [0,0, 1,0, 0,1, 0,0] and false on its reversal [0,0, 0,1, 1,0, 0,0].
C8_TestAssertions ==
    Returned("is_clockwise") =>
        /\ args.coordinates = TriangleA => ret = Ok(TRUE)
        /\ args.coordinates = TriangleB => ret = Ok(FALSE)

\* ---- C6 ----------------------------------------------------------------
BoundsXs == { PairX(args.coordinates, i) : i \in 1..(Len(args.coordinates) \div 2) }

BoundsYs == { PairY(args.coordinates, i) : i \in 1..(Len(args.coordinates) \div 2) }

BoundsContract ==
    IF args.coordinates = <<>>
    THEN ret = Ok(<<0, 0, 0, 0>>)
    ELSE /\ ret.status = "Ok"
         /\ ret.value[1] <= ret.value[3]
         /\ ret.value[2] <= ret.value[4]
         /\ ret.value[1] \in BoundsXs
         /\ ret.value[3] \in BoundsXs
         /\ ret.value[2] \in BoundsYs
         /\ ret.value[4] \in BoundsYs
         /\ Len(args.coordinates) = 2 =>
                ret.value = <<args.coordinates[1], args.coordinates[2],
                              args.coordinates[1], args.coordinates[2]>>

\* C6 as stated: the contract for every even-length sequence of f64 values.
C6_AsStated ==
    (Returned("calculate_bounds") /\ Len(args.coordinates) % 2 = 0) => BoundsContract

\* C6 (amended): for every non-empty even-length sequence of finite
\* coordinates calculate_bounds returns (min_x, min_y, max_x, max_y) with
\* min_x <= max_x, min_y <= max_y, min_x and max_x x-values of the input and
\* min_y and max_y y-values of the input (so [x,y] gives (x,y,x,y)); for the
\* empty sequence it returns (0,0,0,0) and no error.
C6_BoundsOfFiniteInput ==
    (/\ Returned("calculate_bounds")
     /\ Len(args.coordinates) % 2 = 0
     /\ \A i \in 1..Len(args.coordinates) : is_finite(args.coordinates[i]))
        => BoundsContract

C6_Witness ==
    /\ Returned("calculate_bounds")
    /\ args.coordinates = <<1, 0, 0, 1>>
    /\ ret = Ok(<<0, 0, 1, 1>>)

\* ---- convert_polygon: the input rings as the claims describe them --------
NumRings == Len(args.ring_sizes)

\* every ring size is below 2^16; a larger one cannot fit the arrays tried here
SizesSmall == \A i \in 1..NumRings : args.ring_sizes[i][1] = 0

\* the points the slice taken for ring i holds: size * 2 as computed in usize,
\* halved, which is the ring size itself unless size * 2 leaves the word
SlicedPoints(i) == (args.ring_sizes[i][1] % (2 ^ 15)) * LIMB + args.ring_sizes[i][2]

RECURSIVE SizeSum(_)
SizeSum(k) == IF k = 0 THEN 0 ELSE SlicedPoints(k) + SizeSum(k - 1)

\* the ring sizes, at 2 scalars per point, stay within the coordinate array
RingsFit == SizesSmall /\ 2 * SizeSum(NumRings) <= Len(args.coordinates)

\* ring i is declared with fewer than 3 points
ShortRing(i) == args.ring_sizes[i][1] = 0 /\ args.ring_sizes[i][2] < 3

\* the i-th input ring: ring_sizes[i] points after the points of the rings before it
InputRing(i) ==
    LET first == SizeSum(i - 1) IN
    [j \in 1..SlicedPoints(i) |->
        <<args.coordinates[2 * (first + j) - 1], args.coordinates[2 * (first + j)]>>]

\* the i-th input ring as it appears in a polygon: closed if it was not
ClosedInputRing(i) ==
    LET r == InputRing(i) IN
    IF r[1] = r[Len(r)] THEN r ELSE r \o <<r[1]>>

RingIsClockwise(i) == Shoelace(FlatCoords(InputRing(i))) > 0

\* an even-length array and ring sizes that fit it, every ring of 3 or more points
ValidPolygonInput ==
    /\ Returned("convert_polygon")
    /\ Len(args.coordinates) % 2 = 0
    /\ \A i \in 1..NumRings : ~ShortRing(i)
    /\ RingsFit

ClockwiseRings == { i \in 1..NumRings : RingIsClockwise(i) }

\* the rings that start a polygon: every clockwise ring, and the first ring
Starts == ClockwiseRings \cup (IF NumRings >= 1 THEN {1} ELSE {})

\* the k-th smallest element of the set of ring indices S
Kth(S, k) == CHOOSE i \in S : Cardinality({ j \in S : j <= i }) = k

\* the last ring of the group that starts at ring s
GroupEnd(s) ==
    IF \E t \in Starts : t > s
    THEN (CHOOSE t \in Starts : t > s /\ \A u \in Starts : u > s => t <= u) - 1
    ELSE NumRings

\* the polygons of a successful result, a Polygon counting as one
PolygonsOf(value) ==
    IF value.type = "Polygon"
    THEN <<[exterior |-> value.exterior, interiors |-> value.interiors]>>
    ELSE value.polygons

\* polygon p is the group of input rings that starts at ring s
IsGroupAt(p, s) ==
    /\ p.exterior = ClosedInputRing(s)
    /\ p.interiors = [j \in 1..(GroupEnd(s) - s) |-> ClosedInputRing(s + j)]

\* ---- C1 ----------------------------------------------------------------
\* C1: for every even-length coordinate array and ring sizes that fit it, with
\* every ring of 3 or more points and the first ring clockwise, convert_polygon
\* succeeds with as many polygons as there are clockwise rings; the k-th
\* polygon's exterior is the k-th clockwise ring and its holes are exactly the
\* counter-clockwise rings that follow it, in input order, up to the next
\* clockwise ring (rings as closed by Polygon::new).  One clockwise ring then one
\* counter-clockwise ring gives a Polygon of 2 rings; two clockwise rings give
\* a MultiPolygon of 2 single-ring polygons.
C1_GroupsByOrientation ==
    (ValidPolygonInput /\ NumRings >= 1 /\ RingIsClockwise(1)) =>
        /\ ret.status = "Ok"
        /\ LET polygons == PolygonsOf(ret.value) IN
           /\ Len(polygons) = Cardinality(ClockwiseRings)
           /\ \A k \in 1..Len(polygons) :
                LET s == Kth(ClockwiseRings, k) IN
                /\ IsGroupAt(polygons[k], s)
                /\ \A j \in 1..Len(polygons[k].interiors) : ~RingIsClockwise(s + j)
           /\ (NumRings = 2 /\ ~RingIsClockwise(2)) =>
                /\ ret.value.type = "Polygon"
                /\ Len(ret.value.interiors) = 1
           /\ (NumRings = 2 /\ RingIsClockwise(2)) =>
                /\ ret.value.type = "MultiPolygon"
                /\ Len(ret.value.polygons) = 2
                /\ \A k \in 1..2 : ret.value.polygons[k].interiors = <<>>

C1_Witness ==
    /\ ValidPolygonInput
    /\ NumRings = 3
    /\ RingIsClockwise(1) /\ ~RingIsClockwise(2) /\ RingIsClockwise(3)
    /\ ret.status = "Ok"
    /\ ret.value.type = "MultiPolygon"
    /\ Len(ret.value.polygons) = 2
    /\ Len(ret.value.polygons[1].interiors) = 1
    /\ ret.value.polygons[2].interiors = <<>>

\* ---- C2 ----------------------------------------------------------------
\* C2: whenever the coordinate array has odd length, or some ring has fewer
\* than 3 points, or the ring sizes run past the end of the array,
\* convert_polygon returns an error value; it neither panics nor produces a
\* geometry.
C2_ErrorsAreReturned ==
    (/\ Returned("convert_polygon")
     /\ \/ Len(args.coordinates) % 2 # 0
        \/ \E i \in 1..NumRings : ShortRing(i)
        \/ ~RingsFit)
        => ret.status = "Err"

\* ---- C5 ----------------------------------------------------------------
\* C5 as stated: a leading counter-clockwise ring is the first polygon's only
\* ring.
C5_AsStated ==
    (ValidPolygonInput /\ NumRings >= 1 /\ ~RingIsClockwise(1)) =>
        /\ ret.status = "Ok"
        /\ Len(PolygonsOf(ret.value)) >= 1
        /\ PolygonsOf(ret.value)[1].exterior = ClosedInputRing(1)
        /\ PolygonsOf(ret.value)[1].interiors = <<>>

\* C5 (amended): a leading counter-clockwise ring is the exterior of the first
\* polygon, and the counter-clockwise rings that follow it, up to the next
\* clockwise ring, are that polygon's holes; it is the polygon's sole ring
\* only when the second ring is clockwise or absent.
C5_LeadingRingIsExterior ==
    (ValidPolygonInput /\ NumRings >= 1 /\ ~RingIsClockwise(1)) =>
        /\ ret.status = "Ok"
        /\ Len(PolygonsOf(ret.value)) >= 1
        /\ IsGroupAt(PolygonsOf(ret.value)[1], 1)
        /\ Len(PolygonsOf(ret.value)[1].interiors) =
               Cardinality({ i \in 2..NumRings : \A j \in 2..i : ~RingIsClockwise(j) })
        /\ (PolygonsOf(ret.value)[1].interiors = <<>>) <=>
               (NumRings = 1 \/ RingIsClockwise(2))

C5_Witness ==
    /\ ValidPolygonInput
    /\ NumRings = 2
    /\ ~RingIsClockwise(1) /\ ~RingIsClockwise(2)
    /\ ret.status = "Ok"
    /\ ret.value.type = "Polygon"
    /\ ret.value.exterior = ClosedInputRing(1)
    /\ ret.value.interiors = <<ClosedInputRing(2)>>

\* ---- C7 ----------------------------------------------------------------
\* C7 as stated: a Polygon exactly when grouping yields one polygon, and a
\* MultiPolygon never wraps fewer than two polygons.
C7_AsStated ==
    (Returned("convert_polygon") /\ ret.status = "Ok") =>
        /\ (ret.value.type = "Polygon") <=> (Cardinality(Starts) = 1)
        /\ ret.value.type = "MultiPolygon" => Len(ret.value.polygons) >= 2

\* C7 (amended): on every successful call a Polygon is emitted exactly when
\* grouping yields one polygon; otherwise a MultiPolygon of all the grouped
\* polygons is emitted, which wraps two or more polygons when ring_sizes is
\* not empty and no polygon at all when ring_sizes is empty.
C7_FormFollowsCount ==
    (Returned("convert_polygon") /\ ret.status = "Ok") =>
        /\ ret.value.type \in {"Polygon", "MultiPolygon"}
        /\ (ret.value.type = "Polygon") <=> (Cardinality(Starts) = 1)
        /\ ret.value.type = "MultiPolygon" =>
             /\ Len(ret.value.polygons) = Cardinality(Starts)
             /\ IF args.ring_sizes = <<>>
                THEN ret.value.polygons = <<>>
                ELSE Len(ret.value.polygons) >= 2

C7_Witness ==
    /\ Returned("convert_polygon")
    /\ ret.status = "Ok"
    /\ NumRings = 2
    /\ ret.value.type = "MultiPolygon"
    /\ Len(ret.value.polygons) = 2

\* ---- C9 ----------------------------------------------------------------
\* the true sum a + b, as <<carry, hi, lo>>, exceeds c
TrueSumExceeds(a, b, c) ==
    LET lo == a[2] + b[2]
        hi == a[1] + b[1] + (lo \div LIMB) IN
    \/ hi >= LIMB
    \/ hi > c[1]
    \/ (hi = c[1] /\ lo % LIMB > c[2])

\* C9: validate_record_buffer_space fails exactly when the true sum
\* offset + record_size exceeds buffer_length and succeeds otherwise, for all
\* values of the inputs, and every failure is a returned failure value whose
\* message is built without aborting or wrapping.
C9_ExactBufferCheck ==
    Returned("validate_record_buffer_space") =>
        /\ ret.status \in {"Ok", "Err"}
        /\ (ret.status = "Err") <=>
               TrueSumExceeds(args.offset, args.record_size, args.buffer_length)
        /\ ret.status = "Err" => ~usize_gt(args.offset, args.buffer_length)

\* ---- C10 ---------------------------------------------------------------
GeometryCodes == {1, 3, 5, 8, 11, 13, 15, 18, 21, 23, 25, 28, 31}

\* C10: validate_shape_type returns false for code 0, true for each code in
\* {1,3,5,8,11,13,15,18,21,23,25,28,31} and fails for every other code; and
\* process_geometry produces a geometry only for a code validate_shape_type
\* classifies as geometry-bearing: for code 0 and for every unrecognised code
\* it fails without invoking any Geometry Builder conversion.
C10_ShapeTypeGating ==
    /\ Returned("validate_shape_type") =>
         /\ args.shape_type = 0 => ret = Ok(FALSE)
         /\ args.shape_type \in GeometryCodes => ret = Ok(TRUE)
         /\ args.shape_type \notin GeometryCodes \cup {0} => ret.status = "Err"
    /\ Returned("process_geometry") =>
         /\ ret.result.status = "Ok" => validate_shape_type(args.shape_type) = Ok(TRUE)
         /\ ret.invoked # "none" => validate_shape_type(args.shape_type) = Ok(TRUE)
         /\ args.shape_type \notin GeometryCodes =>
              /\ ret.result.status = "Err"
              /\ ret.invoked = "none"

C10_Witness ==
    /\ Returned("process_geometry")
    /\ args.shape_type = 0
    /\ Len(args.coordinates) = 6
    /\ ret.result.status = "Err"
    /\ ret.invoked = "none"

====
